---- MODULE Spec2Model ----
(***************************************************************************)
(* GLauncher (src/main.rs): a terminal launcher.  main() switches the      *)
(* terminal to raw mode and the alternate screen, loads the Program        *)
(* entries of the config directory, alternates draw and handle_events      *)
(* until handle_events returns true, and then restores the terminal.  The  *)
(* Enter key forks; the fork duplicate spawns `sh -c <command>`; both      *)
(* processes then sleep and leave the loop.                                *)
(***************************************************************************)
EXTENDS Integers, Sequences, FiniteSets, TLC

\* ---------------------------------------------------------------- bounds
\* Longest directory listing handle_setup reads.
MaxFiles == 2
\* Largest value of the model's usize (the width is kept so that `- 1` at 0
\* and `+ 1` at the top wrap as they do without overflow checks).
UsizeMax == 7
\* Granularity of the model's clock, in milliseconds.
TickMs == 5000

\* thread::sleep(Duration::from_millis(5000))
SettleMs == 5000

\* ------------------------------------------------------------ value sets
\* The launcher process and the duplicate fork() creates.
Procs == {"parent", "child"}
\* The processes a launch creates: the duplicate and the spawned `sh -c`.
Created == {"child", "sh"}

\* struct Program: title, description, command.
Programs ==
  { [title |-> "A", description |-> "B", command |-> "true"],
    [title |-> "X", description |-> "Y", command |-> "sleep 60"] }

\* What one directory entry is to handle_setup: a file that decodes to a
\* Program, a file that does not, or an entry read_to_string fails on.
FileKinds ==
  { [kind |-> "valid", program |-> p] : p \in Programs }
    \cup { [kind |-> k, program |-> [title |-> "", description |-> "", command |-> ""]]
             : k \in {"invalid", "unreadable"} }

Listings == UNION { [1..n -> FileKinds] : n \in 0..MaxFiles }

\* State of the config directory when handle_setup runs.
DirStates == {"present", "missing", "uncreatable", "no_config_dir"}

KeyCodes == {"Up", "Down", "k", "j", "Enter", "q", "other"}
KeyKinds == {"Press", "Release", "Repeat"}

\* Outcomes of event::poll followed by event::read.
NoEvent == [tag |-> "none", code |-> "-", kind |-> "-"]
Inputs ==
  { [tag |-> t, code |-> "-", kind |-> "-"] : t \in {"poll_err", "timeout", "read_err", "not_key"} }
    \cup { [tag |-> "key", code |-> c, kind |-> k] : c \in KeyCodes, k \in KeyKinds }

\* Option<usize> as a sequence of at most one element.
None == << >>
Some(x) == << x >>

\* GlobalInfo::default()
DefaultGlobalInfo ==
  [config_path |-> None, list |-> << >>, liststate |-> None, list_pos |-> 0]

VARIABLES
  overflow_checks,  \* the build: TRUE panics on usize overflow, FALSE wraps
  dir_state,        \* the config directory before handle_setup
  dir_files,        \* its listing, in read_dir order
  term,             \* the shared terminal: [raw, alt]
  pc,               \* where each process is in main
  data,             \* each process's GlobalInfo
  should_quit,      \* main's should_quit, per process
  event,            \* the last outcome of poll/read
  command,          \* handle_events' local `command`, per process
  fork_result,      \* what fork() returned in each process
  spawns,           \* Command::spawn calls: [proc, cmd, ok]
  termlog,          \* terminal mode calls: [proc, op, ok]
  diag,             \* lines written by println!/eprintln!
  cause,            \* why each process left main
  ostate,           \* process table entries of the fork duplicate and of sh
  ppid,             \* their parent process
  now,              \* milliseconds elapsed while a process was in its sleep
  wake,             \* when each process's thread::sleep ends
  drawn             \* frames each process drew since its last handle_events

vars == << overflow_checks, dir_state, dir_files, term, pc, data, should_quit,
           event, command, fork_result, spawns, termlog, diag, cause, ostate, ppid,
           now, wake, drawn >>

\* Positions after which a process is no longer running.
Terminated == {"exited", "failed", "panicked"}

Init ==
  /\ overflow_checks \in BOOLEAN
  /\ dir_state \in DirStates
  /\ dir_files \in Listings
  /\ (dir_state # "present" => dir_files = << >>)
  /\ term = [raw |-> FALSE, alt |-> FALSE]
  /\ pc = [p \in Procs |-> IF p = "parent" THEN "enable_raw" ELSE "unborn"]
  /\ data = [p \in Procs |-> DefaultGlobalInfo]
  /\ should_quit = [p \in Procs |-> FALSE]
  /\ event = NoEvent
  /\ command = [p \in Procs |-> ""]
  /\ fork_result = [p \in Procs |-> "none"]
  /\ spawns = << >>
  /\ termlog = << >>
  /\ diag = << >>
  /\ cause = [p \in Procs |-> "running"]
  /\ ostate = [x \in Created |-> "unborn"]
  /\ ppid = [x \in Created |-> "none"]
  /\ now = 0
  /\ wake = [p \in Procs |-> 0]
  /\ drawn = [p \in Procs |-> 0]

\* ------------------------------------------------------- process exit
\* Process p leaves main: `how` is "exited" (Ok), "failed" (an Err returned
\* by `?`) or "panicked" (unwrap, index or arithmetic panic).  The kernel
\* turns the fork duplicate into a zombie and hands p's children to init.
Leave(p, how, why) ==
  /\ pc' = [pc EXCEPT ![p] = how]
  /\ cause' = [cause EXCEPT ![p] = why]
  /\ ostate' = IF p = "child" THEN [ostate EXCEPT !["child"] = "zombie"] ELSE ostate
  /\ ppid' = [x \in Created |-> IF ppid[x] = p THEN "init" ELSE ppid[x]]

Goto(p, where) ==
  /\ pc' = [pc EXCEPT ![p] = where]
  /\ UNCHANGED << cause, ostate, ppid >>

\* A loop that draws once and then only polls.
LoopNext_PollAgain(quit) == IF quit THEN "disable_raw" ELSE "events"

\* A loop that drops handle_events' result: should_quit never ends it.
LoopNext_NeverQuits(quit) == "draw"

\* while !should_quit { draw; should_quit = handle_events }: where main
\* goes when handle_events has returned `quit`.
LoopNext(quit) == IF quit THEN "disable_raw" ELSE "draw"

TermCall(p, op, ok) == termlog' = Append(termlog, [proc |-> p, op |-> op, ok |-> ok])

\* ------------------------------------------------------- main, startup
\* enable_raw_mode()?
enable_raw_mode(p) ==
  /\ pc[p] = "enable_raw"
  /\ \E ok \in BOOLEAN :
       /\ TermCall(p, "enable_raw_mode", ok)
       /\ IF ok
            THEN term' = [term EXCEPT !.raw = TRUE] /\ Goto(p, "enter_alt")
            ELSE UNCHANGED term /\ Leave(p, "failed", "enable_raw_error")
  /\ UNCHANGED << overflow_checks, dir_state, dir_files, data, should_quit, event,
                  command, fork_result, spawns, diag, now, wake, drawn >>

\* stdout().execute(EnterAlternateScreen)?
EnterAlternateScreen(p) ==
  /\ pc[p] = "enter_alt"
  /\ \E ok \in BOOLEAN :
       /\ TermCall(p, "EnterAlternateScreen", ok)
       /\ IF ok
            THEN term' = [term EXCEPT !.alt = TRUE] /\ Goto(p, "new_terminal")
            ELSE UNCHANGED term /\ Leave(p, "failed", "enter_alt_error")
  /\ UNCHANGED << overflow_checks, dir_state, dir_files, data, should_quit, event,
                  command, fork_result, spawns, diag, now, wake, drawn >>

\* Terminal::new(CrosstermBackend::new(stdout()))?
TerminalNew(p) ==
  /\ pc[p] = "new_terminal"
  /\ \E ok \in BOOLEAN :
       IF ok THEN Goto(p, "setup") ELSE Leave(p, "failed", "terminal_new_error")
  /\ UNCHANGED << overflow_checks, dir_state, dir_files, term, data, should_quit,
                  event, command, fork_result, spawns, termlog, diag, now, wake, drawn >>

\* ------------------------------------------------------- handle_setup
InvalidFileMsg == "Could not load config file as it is invalid."
CreateDirFailedMsg == "Could not make config directory."

\* The loop over read_dir: a valid file is pushed, an invalid one is reported
\* and skipped, an entry that cannot be read panics in unwrap.
RECURSIVE LoadFiles(_, _)
LoadFiles(files, acc) ==
  IF files = << >> THEN acc
  ELSE LET f == Head(files) IN
    CASE f.kind = "unreadable" -> [acc EXCEPT !.panic = TRUE]
      [] f.kind = "valid" ->
           LoadFiles(Tail(files), [acc EXCEPT !.list = Append(@, f.program)])
      [] OTHER ->
           LoadFiles(Tail(files), [acc EXCEPT !.diag = Append(@, InvalidFileMsg)])

\* handle_setup's result for a directory state and listing:
\* [list, diag, panic].
SetupResult(state, files) ==
  CASE state = "no_config_dir" -> [list |-> << >>, diag |-> << >>, panic |-> TRUE]
    [] state = "uncreatable" -> [list |-> << >>, diag |-> << CreateDirFailedMsg >>, panic |-> TRUE]
    [] state = "missing" -> [list |-> << >>, diag |-> << >>, panic |-> FALSE]
    [] OTHER -> LoadFiles(files, [list |-> << >>, diag |-> << >>, panic |-> FALSE])

handle_setup(p) ==
  /\ pc[p] = "setup"
  /\ LET r == SetupResult(dir_state, dir_files) IN
       /\ diag' = diag \o r.diag
       /\ dir_state' = IF dir_state = "missing" THEN "present" ELSE dir_state
       /\ IF r.panic
            THEN /\ Leave(p, "panicked", "setup_panic")
                 /\ UNCHANGED data
            ELSE /\ Goto(p, "draw")
                 /\ data' = [data EXCEPT ![p] = [DefaultGlobalInfo EXCEPT
                                                   !.config_path = Some("glauncher"),
                                                   !.list = r.list]]
  /\ UNCHANGED << overflow_checks, dir_files, term, should_quit, event, command,
                  fork_result, spawns, termlog, now, wake, drawn >>

\* ------------------------------------------------------------------ ui
\* A ui that always selects the first row.
ui_SelectsFirst(d) ==
  [data |-> [d EXCEPT !.liststate = Some(0)],
   panic |-> ~(d.list_pos < Len(d.list))]

\* ui(frame, data): selects row list_pos in the list widget, then reads
\* data.list[data.list_pos]; the index panics when list_pos is no index.
ui(d) ==
  [data |-> [d EXCEPT !.liststate = Some(d.list_pos)],
   panic |-> ~(d.list_pos < Len(d.list))]

\* terminal.draw(|f| ui(f, &mut data))?: the draw can fail before it calls
\* ui (resize) or after (flush); a frame is drawn once ui has returned.
draw(p) ==
  /\ pc[p] = "draw"
  /\ \E io \in {"ok", "err_before", "err_after"} :
       LET r == ui(data[p]) IN
         CASE io = "err_before" ->
                /\ UNCHANGED << data, drawn >>
                /\ Leave(p, "failed", "draw_error")
           [] r.panic ->
                /\ data' = [data EXCEPT ![p] = r.data]
                /\ UNCHANGED drawn
                /\ Leave(p, "panicked", "ui_index_panic")
           [] io = "err_after" ->
                /\ data' = [data EXCEPT ![p] = r.data]
                /\ drawn' = [drawn EXCEPT ![p] = @ + 1]
                /\ Leave(p, "failed", "draw_error")
           [] OTHER ->
                /\ data' = [data EXCEPT ![p] = r.data]
                /\ drawn' = [drawn EXCEPT ![p] = @ + 1]
                /\ Goto(p, "events")
  /\ UNCHANGED << overflow_checks, dir_state, dir_files, term, should_quit, event,
                  command, fork_result, spawns, termlog, diag, now, wake >>

\* ------------------------------------------------------- handle_events
\* usize `x - 1` and `x + 1`: with overflow checks the operation panics out
\* of range, without them it wraps.
Sub1(x, checks) ==
  IF x = 0 THEN [v |-> IF checks THEN 0 ELSE UsizeMax, panic |-> checks]
  ELSE [v |-> x - 1, panic |-> FALSE]

Add1(x, checks) ==
  IF x = UsizeMax THEN [v |-> IF checks THEN UsizeMax ELSE 0, panic |-> checks]
  ELSE [v |-> x + 1, panic |-> FALSE]

\* A quit test that names the wrong character: 'q' is never the quit key.
IsQuit_WrongChar(key) == key.kind = "Press" /\ key.code = "Q"

\* key.kind == Press && key.code == Char('q')
IsQuit(key) == key.kind = "Press" /\ key.code = "q"

\* key.code == Up || key.code == Char('k') && data.list_pos > 0
IsUp(d, key) == key.code = "Up" \/ (key.code = "k" /\ d.list_pos > 0)

\* key.code == Enter
IsEnter(key) == key.code = "Enter"

\* What a list_pos assignment leaves behind.
Moved(r) == [list_pos |-> r.v, ret |-> IF r.panic THEN "panic" ELSE "continue"]

\* The if/else-if chain of handle_events on a key event: the new list_pos
\* and how the chain ends: "quit" (return Ok(true)), "continue" (fall
\* through to Ok(false)), "launch" (the Enter branch got its command) or
\* "panic".  In the Down branch `len - 1` is evaluated only for 'j'.
KeyEffect(d, key, checks) ==
  LET stay(r) == [list_pos |-> d.list_pos, ret |-> r] IN
  IF IsQuit(key) THEN stay("quit")
  ELSE IF IsUp(d, key) THEN Moved(Sub1(d.list_pos, checks))
  ELSE IF key.code = "Down" THEN Moved(Add1(d.list_pos, checks))
  ELSE IF key.code = "j" THEN
    LET last == Sub1(Len(d.list), checks) IN
      IF last.panic THEN stay("panic")
      ELSE IF d.list_pos < last.v THEN Moved(Add1(d.list_pos, checks))
      ELSE stay("continue")
  ELSE IF IsEnter(key) THEN
    IF d.list_pos < Len(d.list) THEN stay("launch") ELSE stay("panic")
  ELSE stay("continue")

\* A command read from the first entry instead of the selected one.
SelectedCommand_First(d) == d.list[1].command

\* data.list[data.list_pos].command.clone()
SelectedCommand(d) == d.list[d.list_pos + 1].command

ParentMsg == "Continuing execution in parent process, new child has pid"
ForkFailedMsg == "Fork failed"

\* match fork(): Ok(Fork::Parent) prints and goes on to the sleep, the
\* duplicate starts in the Ok(Fork::Child) arm with a copy of the parent's
\* memory; Err prints and goes on to the sleep.  The sleep of p ends
\* SettleMs after it starts.
Fork(p, cmd, ok) ==
  /\ command' = [q \in Procs |-> IF q = p \/ ok THEN cmd ELSE command[q]]
  /\ IF ok
       THEN /\ pc["child"] = "unborn" /\ p = "parent"
            /\ fork_result' = [fork_result EXCEPT ![p] = "Parent", !["child"] = "Child"]
            /\ pc' = [pc EXCEPT ![p] = "sleep", !["child"] = "spawn"]
            /\ data' = [data EXCEPT !["child"] = data[p]]
            /\ should_quit' = [should_quit EXCEPT !["child"] = should_quit[p]]
            /\ ostate' = [ostate EXCEPT !["child"] = "running"]
            /\ ppid' = [ppid EXCEPT !["child"] = p]
            /\ diag' = Append(diag, ParentMsg)
            /\ drawn' = [q \in Procs |-> 0]
       ELSE /\ fork_result' = [fork_result EXCEPT ![p] = "Err"]
            /\ pc' = [pc EXCEPT ![p] = "sleep"]
            /\ diag' = Append(diag, ForkFailedMsg)
            /\ drawn' = [drawn EXCEPT ![p] = 0]
            /\ UNCHANGED << data, should_quit, ostate, ppid >>
  /\ wake' = [wake EXCEPT ![p] = now + SettleMs]
  /\ UNCHANGED cause

\* A non-key event taken for a key press of Down.
EventEffect_NoKeyTest(d, in, checks) ==
  IF in.tag \in {"poll_err", "read_err"} THEN [list_pos |-> d.list_pos, ret |-> "error"]
  ELSE IF in.tag = "timeout" THEN [list_pos |-> d.list_pos, ret |-> "continue"]
  ELSE IF in.tag = "not_key" THEN Moved(Add1(d.list_pos, checks))
  ELSE KeyEffect(d, in, checks)

\* handle_events on one outcome of poll and read: an Err of either is
\* returned by `?` ("error"); a timeout of poll or an event that is no
\* Event::Key falls through to Ok(false); a key event runs the chain.
EventEffect(d, in, checks) ==
  IF in.tag \in {"poll_err", "read_err"} THEN [list_pos |-> d.list_pos, ret |-> "error"]
  ELSE IF in.tag \in {"timeout", "not_key"} THEN [list_pos |-> d.list_pos, ret |-> "continue"]
  ELSE KeyEffect(d, in, checks)

\* handle_events(&mut data).unwrap(), up to the sleep of the Enter branch.
handle_events(p) ==
  /\ pc[p] = "events"
  /\ \E in \in Inputs :
       LET r == EventEffect(data[p], in, overflow_checks) IN
         /\ event' = in
         /\ CASE r.ret = "error" ->
                   /\ Leave(p, "panicked", "event_error")
                   /\ drawn' = [drawn EXCEPT ![p] = 0]
                   /\ UNCHANGED << data, should_quit, command, fork_result, diag, wake >>
              [] r.ret = "panic" ->
                   /\ Leave(p, "panicked", "event_panic")
                   /\ drawn' = [drawn EXCEPT ![p] = 0]
                   /\ UNCHANGED << data, should_quit, command, fork_result, diag, wake >>
              [] r.ret = "quit" ->
                   /\ Goto(p, LoopNext(TRUE))
                   /\ should_quit' = [should_quit EXCEPT ![p] = TRUE]
                   /\ drawn' = [drawn EXCEPT ![p] = 0]
                   /\ UNCHANGED << data, command, fork_result, diag, wake >>
              [] r.ret = "continue" ->
                   /\ Goto(p, LoopNext(FALSE))
                   /\ data' = [data EXCEPT ![p].list_pos = r.list_pos]
                   /\ should_quit' = [should_quit EXCEPT ![p] = FALSE]
                   /\ drawn' = [drawn EXCEPT ![p] = 0]
                   /\ UNCHANGED << command, fork_result, diag, wake >>
              [] OTHER ->
                   \E ok \in BOOLEAN : Fork(p, SelectedCommand(data[p]), ok)
  /\ UNCHANGED << overflow_checks, dir_state, dir_files, term, spawns, termlog, now >>

\* A Child handle that kills its process when it is dropped.
DropChild_Kills(st) == "killed"

\* The Child handle spawn() returns is a temporary dropped at the end of the
\* statement: std::process::Child has no Drop, the process keeps its state.
DropChild(st) == st

\* A spawn whose error is dropped instead of unwrapped: the duplicate goes
\* on to its sleep and says nothing.
spawn_ErrorIgnored(p) ==
  /\ pc[p] = "spawn"
  /\ \E ok \in BOOLEAN :
       /\ spawns' = Append(spawns, [proc |-> p, cmd |-> command[p], ok |-> ok])
       /\ pc' = [pc EXCEPT ![p] = "sleep"]
       /\ wake' = [wake EXCEPT ![p] = now + SettleMs]
       /\ ostate' = IF ok THEN [ostate EXCEPT !["sh"] = "running"] ELSE ostate
       /\ ppid' = IF ok THEN [ppid EXCEPT !["sh"] = p] ELSE ppid
       /\ UNCHANGED cause
  /\ UNCHANGED << overflow_checks, dir_state, dir_files, term, data, should_quit,
                  event, command, fork_result, termlog, diag, now, drawn >>

\* Command::new("sh").arg("-c").arg(command).spawn().unwrap() in the
\* Ok(Fork::Child) arm.
spawn(p) ==
  /\ pc[p] = "spawn"
  /\ \E ok \in BOOLEAN :
       /\ spawns' = Append(spawns, [proc |-> p, cmd |-> command[p], ok |-> ok])
       /\ IF ok
            THEN /\ pc' = [pc EXCEPT ![p] = "sleep"]
                 /\ wake' = [wake EXCEPT ![p] = now + SettleMs]
                 /\ ostate' = [ostate EXCEPT !["sh"] = DropChild("running")]
                 /\ ppid' = [ppid EXCEPT !["sh"] = p]
                 /\ UNCHANGED cause
            ELSE /\ Leave(p, "panicked", "spawn_error")
                 /\ UNCHANGED wake
  /\ UNCHANGED << overflow_checks, dir_state, dir_files, term, data, should_quit,
                  event, command, fork_result, termlog, diag, now, drawn >>

\* A settle step that waits for the spawned command to end.
SleepReady_WaitsForCommand(p) == ostate["sh"] \in {"zombie", "reaped"}

\* A settle step without its delay.
SleepReady_NoDelay(p) == TRUE

\* What the settle delay waits for: nothing but the time.
SleepReady(p) == now >= wake[p]

\* thread::sleep(5000 ms); return Ok(true); should_quit = true ends the loop.
sleep(p) ==
  /\ pc[p] = "sleep"
  /\ SleepReady(p)
  /\ should_quit' = [should_quit EXCEPT ![p] = TRUE]
  /\ Goto(p, LoopNext(TRUE))
  /\ UNCHANGED << overflow_checks, dir_state, dir_files, term, data, event, command,
                  fork_result, spawns, termlog, diag, now, wake, drawn >>

\* ------------------------------------------------------- main, teardown
\* disable_raw_mode()?
disable_raw_mode(p) ==
  /\ pc[p] = "disable_raw"
  /\ \E ok \in BOOLEAN :
       /\ TermCall(p, "disable_raw_mode", ok)
       /\ IF ok
            THEN term' = [term EXCEPT !.raw = FALSE] /\ Goto(p, "leave_alt")
            ELSE UNCHANGED term /\ Leave(p, "failed", "disable_raw_error")
  /\ UNCHANGED << overflow_checks, dir_state, dir_files, data, should_quit, event,
                  command, fork_result, spawns, diag, now, wake, drawn >>

\* stdout().execute(LeaveAlternateScreen)?; Ok(())
LeaveAlternateScreen(p) ==
  /\ pc[p] = "leave_alt"
  /\ \E ok \in BOOLEAN :
       /\ TermCall(p, "LeaveAlternateScreen", ok)
       /\ IF ok
            THEN term' = [term EXCEPT !.alt = FALSE] /\ Leave(p, "exited", "ok")
            ELSE UNCHANGED term /\ Leave(p, "failed", "leave_alt_error")
  /\ UNCHANGED << overflow_checks, dir_state, dir_files, data, should_quit, event,
                  command, fork_result, spawns, diag, now, wake, drawn >>

\* ------------------------------------------------------- the environment
\* The spawned command ends by itself.
ShFinishes ==
  /\ ostate["sh"] = "running"
  /\ ostate' = [ostate EXCEPT !["sh"] = "zombie"]
  /\ UNCHANGED << overflow_checks, dir_state, dir_files, term, pc, data, should_quit,
                  event, command, fork_result, spawns, termlog, diag, cause, ppid,
                  now, wake, drawn >>

\* init reaps the zombies it has inherited; the launcher never calls wait.
InitReaps(x) ==
  /\ ostate[x] = "zombie"
  /\ ppid[x] = "init"
  /\ ostate' = [ostate EXCEPT ![x] = "reaped"]
  /\ UNCHANGED << overflow_checks, dir_state, dir_files, term, pc, data, should_quit,
                  event, command, fork_result, spawns, termlog, diag, cause, ppid,
                  now, wake, drawn >>

\* Time passes.  The clock is needed, and runs, only while a process is in
\* its sleep: nothing else in the program reads the time.
Tick ==
  /\ \E p \in Procs : pc[p] = "sleep" /\ now < wake[p]
  /\ now' = now + TickMs
  /\ UNCHANGED << overflow_checks, dir_state, dir_files, term, pc, data, should_quit,
                  event, command, fork_result, spawns, termlog, diag, cause, ostate,
                  ppid, wake, drawn >>

\* ------------------------------------------------------- specification
\* One step of launcher process p.
Step(p) ==
  \/ enable_raw_mode(p)
  \/ EnterAlternateScreen(p)
  \/ TerminalNew(p)
  \/ handle_setup(p)
  \/ draw(p)
  \/ handle_events(p)
  \/ spawn(p)
  \/ sleep(p)
  \/ disable_raw_mode(p)
  \/ LeaveAlternateScreen(p)

Next ==
  \/ \E p \in Procs : Step(p)
  \/ ShFinishes
  \/ \E x \in Created : InitReaps(x)
  \/ Tick

Spec == Init /\ [][Next]_vars

\* A process that can run is scheduled, time passes, and init reaps what it
\* inherits.  The spawned command is under no obligation to end.
FairSpec ==
  /\ Spec
  /\ \A p \in Procs : WF_vars(Step(p))
  /\ \A x \in Created : WF_vars(InitReaps(x))
  /\ WF_vars(Tick)

\* =================================================================
\* Properties
\* =================================================================
QPress == [tag |-> "key", code |-> "q", kind |-> "Press"]
TermNormal == ~term.raw /\ ~term.alt
ParentData == data["parent"]
\* handle_setup has returned in the parent.
Loaded == ParentData.config_path # None
\* Terminal mode calls of one kind that succeeded.
Calls(op) == { i \in DOMAIN termlog : termlog[i].op = op /\ termlog[i].ok }
\* The parent's restore calls both returned Ok.
ParentRestoreOk ==
  \A op \in {"disable_raw_mode", "LeaveAlternateScreen"} :
    \E i \in Calls(op) : termlog[i].proc = "parent"
\* A launch whose fork succeeded.
Launched == fork_result["parent"] = "Parent"
\* The step is a handle_events call of p that handled input `in`.
Handled(p, in) == pc[p] = "events" /\ pc'[p] # "events" /\ event' = in

\* C1: with a non-empty entry list, list_pos stays a valid index
\* (0 <= list_pos < len(list)) whatever navigation keys are handled.
C1_ListPosInRange ==
  (Loaded /\ Len(ParentData.list) > 0) => ParentData.list_pos < Len(ParentData.list)

\* The ways out of main the claim lists: quit and post-launch quit ("ok"),
\* an error returned by draw or by event polling, a failure while loading
\* the configuration or while handling an event.
ListedExits == {"ok", "draw_error", "event_error", "setup_panic", "event_panic"}

\* C2: once the parent has entered raw mode and the alternate screen, it
\* never ends, on any of these paths, with the terminal still in that mode.
C2_RestoreOnEveryExit ==
  (pc["parent"] \in Terminated /\ cause["parent"] \in ListedExits) => TermNormal

\* C3: with zero entries loaded the program keeps running: no render and no
\* key event makes it panic, and nothing is launched.
C3_EmptyListTolerated ==
  (Loaded /\ ParentData.list = << >>)
    => (pc["parent"] # "panicked" /\ fork_result["parent"] = "none" /\ spawns = << >>)

\* C4 (as stated): once 'q' has been pressed the process never ends with
\* the terminal unrestored.
C4_QuitAlwaysRestores ==
  (event = QPress /\ pc["parent"] \in Terminated) => TermNormal

\* The state part of C4: after a 'q' press the parent is past the loop, in
\* the restore sequence or ended by it; nothing was forked or spawned; an
\* exit with both restore calls Ok leaves the terminal normal, and the only
\* other way out is the error of a restore call.
C4_AfterQuit ==
  event = QPress =>
    /\ pc["parent"] \in {"disable_raw", "leave_alt", "exited", "failed"}
    /\ should_quit["parent"]
    /\ pc["child"] = "unborn" /\ fork_result["parent"] = "none" /\ spawns = << >>
    /\ (pc["parent"] = "exited" => TermNormal /\ ParentRestoreOk)
    /\ (pc["parent"] = "failed" => cause["parent"] \in {"disable_raw_error", "leave_alt_error"})

\* The step part of C4: handling a 'q' press returns quit at once, with
\* list_pos, the list and the process table as they were.
C4_QuitStep ==
  \A p \in Procs :
    Handled(p, QPress) =>
      /\ pc'[p] = "disable_raw" /\ should_quit'[p]
      /\ data'[p].list_pos = data[p].list_pos /\ data'[p].list = data[p].list
      /\ UNCHANGED << fork_result, spawns, ostate >>

\* C4 (amended): from any loop state a 'q' press ends the loop without
\* changing list_pos and without fork or spawn, no draw or poll follows, and
\* the terminal is restored before the process exits unless disable_raw_mode
\* or LeaveAlternateScreen itself returns an error, which main returns.
C4_Quit == [] C4_AfterQuit /\ [][C4_QuitStep]_vars

\* C4 witness: 'q' pressed on the second of two entries, parent exited.
C4_Witness ==
  /\ event = QPress /\ pc["parent"] = "exited" /\ TermNormal
  /\ Len(ParentData.list) = 2 /\ ParentData.list_pos = 1

\* The spawn calls made so far: at most one, by the fork duplicate of a
\* successful fork, with the command of the entry the parent has selected
\* (list_pos does not change after the key); one once the duplicate is past
\* its spawn statement.
C5_SpawnInv ==
  /\ Len(spawns) <= 1
  /\ \A i \in DOMAIN spawns :
       /\ spawns[i].proc = "child"
       /\ Launched
       /\ spawns[i].cmd = ParentData.list[ParentData.list_pos + 1].command
  /\ (pc["child"] \notin {"unborn", "spawn"} => Len(spawns) = 1)
  /\ (Launched => pc["child"] # "unborn")

\* C5: a confirm key with a successful fork leads to exactly one
\* `sh -c <cmd>` spawn call, made by the fork duplicate and never by the
\* parent, with <cmd> the command of the entry at list_pos.
C5_OneSpawnInChild == [] C5_SpawnInv /\ (Launched ~> Len(spawns) = 1)

\* C5 witness: the second entry launched, its command spawned, both ended.
C5_Witness ==
  /\ Launched /\ Len(spawns) = 1 /\ spawns[1].ok
  /\ ParentData.list_pos = 1 /\ spawns[1].cmd = "sleep 60"
  /\ ParentData.list[1].command = "true"
  /\ pc["parent"] = "exited" /\ pc["child"] = "exited"

\* C6 (as stated): after a launch the parent never ends with the terminal
\* unrestored.
C6_LaunchAlwaysRestores ==
  (Launched /\ pc["parent"] \in Terminated) => TermNormal

\* After a launch the parent's next step is enabled, or the clock of its
\* sleep is running, whatever the state of the duplicate and of the command:
\* it waits on neither.
C6_ParentNeverBlocked ==
  (Launched /\ pc["parent"] \notin Terminated) =>
    \/ ENABLED Step("parent")
    \/ (pc["parent"] = "sleep" /\ now < wake["parent"] /\ ENABLED Tick)

\* After a launch the parent ends as exited with the terminal restored, or
\* with the error of one of its restore calls.
C6_ParentEnd ==
  (Launched /\ pc["parent"] \in Terminated) =>
    /\ (pc["parent"] = "exited" => TermNormal /\ ParentRestoreOk)
    /\ (pc["parent"] # "exited" =>
          pc["parent"] = "failed" /\ cause["parent"] \in {"disable_raw_error", "leave_alt_error"})

\* C6 (amended): after a confirm key with a successful fork the parent
\* always leaves the loop and ends, whether or not the duplicate or the
\* command ends, without waiting on either.  It exits with the terminal
\* restored unless disable_raw_mode or LeaveAlternateScreen itself returns
\* an error, which main returns.
C6_ParentExits ==
  /\ [] C6_ParentNeverBlocked
  /\ [] C6_ParentEnd
  /\ (Launched ~> pc["parent"] \in Terminated)

\* C6 witness: the parent has exited while the duplicate still sleeps and
\* the command runs.
C6_Witness ==
  /\ Launched /\ pc["parent"] = "exited" /\ TermNormal
  /\ ostate["sh"] = "running" /\ pc["child"] = "sleep"

\* C7: a failed fork is reported, spawns nothing, does not signal quit and
\* leaves the parent in the loop with list_pos unchanged.
C7_ForkFailureContinues ==
  fork_result["parent"] = "Err" =>
    /\ \E i \in DOMAIN diag : diag[i] = ForkFailedMsg
    /\ spawns = << >>
    /\ ~should_quit["parent"]
    /\ pc["parent"] \in {"sleep", "draw", "events"}

\* A handle_events step on a key event whose kind is not Press changes
\* nothing.
C8_NonPressStep ==
  \A p \in Procs : \A in \in Inputs :
    (in.tag = "key" /\ in.kind # "Press" /\ Handled(p, in)) =>
      /\ data'[p].list_pos = data[p].list_pos
      /\ UNCHANGED << fork_result, spawns >>
      /\ ~should_quit'[p]

\* C8: a key event whose kind is not Press is ignored for every key code:
\* list_pos stays, nothing is forked or spawned, quit is not signalled.
C8_NonPressIgnored == [][C8_NonPressStep]_vars

\* C9: in a run with a launch the restore sequence is executed once in
\* total: the parent and the fork duplicate do not both run it.
C9_RestoreOnce ==
  \A op \in {"disable_raw_mode", "LeaveAlternateScreen"} :
    Cardinality({ i \in DOMAIN termlog : termlog[i].op = op }) <= 1

\* A successful launch whose two launcher processes have ended.
LaunchersGone ==
  /\ \E i \in DOMAIN spawns : spawns[i].ok
  /\ \A p \in Procs : pc[p] \in Terminated

\* Then the command is running or has ended by itself, and every zombie
\* belongs to init.
C10_Orphans ==
  LaunchersGone =>
    /\ ostate["sh"] \in {"running", "zombie", "reaped"}
    /\ ostate["child"] \in {"zombie", "reaped"}
    /\ \A x \in Created : ostate[x] = "zombie" => ppid[x] = "init"

\* C10: after a successful launch, once the parent and the duplicate have
\* ended, the command is running or has ended by itself (nobody killed it
\* or waited on it), and no process the launch created remains a zombie:
\* init owns and reaps each.
C10_Detached ==
  /\ [] C10_Orphans
  /\ \A x \in Created : (LaunchersGone /\ ostate[x] = "zombie") ~> ostate[x] = "reaped"

\* C10 witness: both launcher processes gone, the duplicate reaped by init,
\* the command running as init's child.
C10_Witness ==
  /\ LaunchersGone /\ ostate["sh"] = "running" /\ ostate["child"] = "reaped"
  /\ ppid["sh"] = "init"

\* handle_setup has run in the parent, to its return or to a panic.
SetupRan == Loaded \/ cause["parent"] = "setup_panic"
\* The Programs of the listing's files that decode, in listing order.
RECURSIVE Decodable(_)
Decodable(files) ==
  IF files = << >> THEN << >>
  ELSE IF Head(files).kind = "valid"
         THEN << Head(files).program >> \o Decodable(Tail(files))
         ELSE Decodable(Tail(files))
\* How many files of the listing do not decode to a Program.
NotDecodable(files) == Cardinality({ i \in DOMAIN files : files[i].kind # "valid" })
\* How many diagnostics of one text were written.
Emitted(msg) == Cardinality({ i \in DOMAIN diag : diag[i] = msg })

\* C11: for a listing with N files that decode to a Program and M that do
\* not, handle_setup returns the N entries in listing order, emits M
\* diagnostics and does not abort.
C11_LoadSkipsInvalid ==
  (SetupRan /\ dir_state = "present") =>
    /\ Loaded
    /\ ParentData.list = Decodable(dir_files)
    /\ Emitted(InvalidFileMsg) = NotDecodable(dir_files)

\* A handle_events step on a pressed navigation key, from a valid list_pos,
\* is a clamped move.
C12_ClampedStep ==
  \A p \in Procs : \A c \in {"Up", "k", "Down", "j"} :
    LET d == data[p]
        n == Len(d.list)
        up == IF d.list_pos = 0 THEN 0 ELSE d.list_pos - 1
        down == IF d.list_pos + 1 < n THEN d.list_pos + 1 ELSE n - 1
    IN (Handled(p, [tag |-> "key", code |-> c, kind |-> "Press"]) /\ d.list_pos < n) =>
         /\ pc'[p] = "draw"
         /\ data'[p].list_pos = IF c \in {"Up", "k"} THEN up ELSE down

\* C12: on a non-empty list with a valid list_pos a pressed Up or 'k' gives
\* max(list_pos - 1, 0) and a pressed Down or 'j' gives
\* min(list_pos + 1, len - 1), and the process stays in the loop.
C12_ClampedMoves == [][C12_ClampedStep]_vars

\* C15: when the missing config directory cannot be created, handle_setup
\* emits its diagnostic and returns an empty list: the program goes on.
C15_CreateDirFailureRecovered ==
  (Emitted(CreateDirFailedMsg) > 0) =>
    /\ Loaded /\ ParentData.list = << >>
    /\ cause["parent"] # "setup_panic"

\* The parent has left its sleep after a launch: it is in the restore
\* sequence or has ended.
ParentTearingDown == Launched /\ pc["parent"] # "sleep"

\* C13 (as stated): whenever the parent is in its teardown after a launch,
\* the duplicate has already made its spawn call.
C13_SpawnBeforeTeardown == ParentTearingDown => pc["child"] # "spawn"

\* C13 (amended): only the settle delay orders the two.  The parent starts
\* its teardown no earlier than SettleMs after fork returned, so a spawn the
\* duplicate makes within the delay precedes it; a duplicate still at its
\* spawn statement when the parent tears down has been delayed that long.
C13_TeardownAfterSettle ==
  /\ (Launched => wake["parent"] >= SettleMs)
  /\ (ParentTearingDown => now >= wake["parent"])
  /\ ((Launched /\ pc["child"] = "spawn" /\ now < wake["parent"]) => pc["parent"] = "sleep")

\* C13 witness: the spawn was made during the delay and the parent has
\* just left its sleep.
C13_Witness ==
  /\ ParentTearingDown /\ pc["parent"] = "disable_raw"
  /\ Len(spawns) = 1 /\ spawns[1].ok /\ now = SettleMs

\* A spawn call returned Err.
SpawnFailed == \E i \in DOMAIN spawns : ~spawns[i].ok

\* C14 (as stated): after a failed spawn the parent never ends with the
\* terminal unrestored.
C14_SpawnFailureParentRestores ==
  (SpawnFailed /\ pc["parent"] \in Terminated) => TermNormal

\* A failed spawn ends the duplicate alone, by the panic of its unwrap: it
\* makes no terminal call and no command exists.
C14_Confined ==
  SpawnFailed =>
    /\ pc["child"] = "panicked" /\ cause["child"] = "spawn_error"
    /\ \A i \in DOMAIN termlog : termlog[i].proc = "parent"
    /\ ostate["sh"] = "unborn"
    /\ pc["parent"] \in {"sleep", "disable_raw", "leave_alt", "exited", "failed"}

\* After a failed spawn the parent ends having signalled quit, as exited
\* with the terminal restored or with the error of a restore call.
C14_ParentEnd ==
  (SpawnFailed /\ pc["parent"] \in Terminated) =>
    /\ should_quit["parent"] /\ now >= wake["parent"]
    /\ (pc["parent"] = "exited" => TermNormal /\ ParentRestoreOk)
    /\ (pc["parent"] # "exited" =>
          pc["parent"] = "failed" /\ cause["parent"] \in {"disable_raw_error", "leave_alt_error"})

\* The step in which the spawn fails leaves the parent and the terminal as
\* they were.
C14_FailureStep ==
  (~SpawnFailed /\ SpawnFailed') =>
    /\ pc'["parent"] = pc["parent"] /\ data'["parent"] = data["parent"]
    /\ should_quit'["parent"] = should_quit["parent"]
    /\ wake'["parent"] = wake["parent"]
    /\ UNCHANGED << term, termlog >>

\* C14 (amended): a failed `sh -c` spawn is confined to the duplicate, which
\* ends by the panic of its unwrap; the parent is unaffected, completes the
\* settle delay, signals quit and runs the restore sequence, which restores
\* the terminal unless disable_raw_mode or LeaveAlternateScreen itself
\* returns an error.
C14_SpawnFailureConfined ==
  /\ [] C14_Confined
  /\ [] C14_ParentEnd
  /\ [][C14_FailureStep]_vars
  /\ (SpawnFailed ~> pc["parent"] \in Terminated)

\* C14 witness: the spawn failed, the parent exited with the terminal
\* restored.
C14_Witness ==
  /\ SpawnFailed /\ pc["parent"] = "exited" /\ TermNormal /\ pc["child"] = "panicked"

\* C16: render and input steps alternate in each process, starting with a
\* render: at every handle_events call exactly one frame has been drawn
\* since the call before, and it shows the current list_pos; at every draw
\* none has.
C16_Alternation ==
  \A p \in Procs :
    /\ drawn[p] \in {0, 1}
    /\ (pc[p] = "events" => drawn[p] = 1 /\ data[p].liststate = Some(data[p].list_pos))
    /\ (pc[p] = "draw" => drawn[p] = 0)
    /\ (pc[p] \in {"setup", "new_terminal", "enter_alt", "enable_raw"} => drawn[p] = 0)

\* C16 witness: back at the poll after a first draw, a key and a second draw.
C16_Witness ==
  /\ pc["parent"] = "events" /\ drawn["parent"] = 1
  /\ event.tag = "key" /\ ParentData.list_pos = 1

\* A draw step leaves data.list, list_pos and config_path as they were and,
\* when ui has returned, liststate selects list_pos; nothing else of the
\* program's state is written.
C17_DrawStep ==
  \A p \in Procs :
    (pc[p] = "draw" /\ pc'[p] # "draw") =>
      /\ data'[p].list = data[p].list
      /\ data'[p].list_pos = data[p].list_pos
      /\ data'[p].config_path = data[p].config_path
      /\ (drawn'[p] # drawn[p] => data'[p].liststate = Some(data[p].list_pos))
      /\ UNCHANGED << should_quit, event, command, fork_result, spawns, term, termlog, diag >>

C18_NoKeyStep ==
  \A p \in Procs : \A t \in {"timeout", "not_key"} :
    Handled(p, [tag |-> t, code |-> "-", kind |-> "-"]) =>
      /\ pc'[p] = "draw" /\ ~should_quit'[p]
      /\ data'[p] = data[p]
      /\ UNCHANGED << command, fork_result, spawns, ostate, term >>

\* C18: with no event within the poll interval, or an event that is no key
\* event, handle_events returns false with the list and list_pos unchanged
\* and no fork or spawn, and the loop goes on to the next render.
C18_NoEventContinues == [][C18_NoKeyStep]_vars

\* C18 witness: a poll timed out with the second entry selected and the
\* loop is at its next render.
C18_Witness ==
  /\ event.tag = "timeout" /\ pc["parent"] = "draw"
  /\ ParentData.list_pos = 1 /\ ParentData.liststate = Some(1)

\* A confirm key has been handled: fork() has returned.
Confirmed == fork_result["parent"] # "none"

\* Once fork() has returned no process is in the loop, no frame is pending
\* and at most one spawn call was made.
C19_AfterConfirm ==
  Confirmed =>
    /\ \A p \in Procs : pc[p] \notin {"draw", "events"} /\ drawn[p] = 0
    /\ Len(spawns) <= 1
    /\ event = [tag |-> "key", code |-> "Enter", kind |-> event.kind]

\* From then on no step draws, reads an event or forks.
C19_NoMoreInput ==
  Confirmed => UNCHANGED << event, drawn, fork_result >>

\* C19: at most one launch per run: after a confirm key, with the fork
\* successful or failed, neither process draws or consumes an event again,
\* and no second fork or spawn occurs.
C19_OneLaunch == [] C19_AfterConfirm /\ [][C19_NoMoreInput]_vars

\* C19 witness: a failed fork, and the parent has exited.
C19_Witness ==
  /\ fork_result["parent"] = "Err" /\ pc["parent"] = "exited" /\ pc["child"] = "unborn"

====
